---- MODULE Spec2Model ----
(***************************************************************************)
(* Model of the attention/decoder core of the image-captioning repository: *)
(*   - SATDecoder (src/src/models/sat_model.py): the scheduled-sampling    *)
(*     rate and the step loop of forward;                                  *)
(*   - Attention (src/src/models/attention.py): scaled dot-product scores, *)
(*     masks and weights;                                                  *)
(*   - AttentionLayer and the attention it wraps (Attention,               *)
(*     AttentionWithMemory, BayesianAttention,                             *)
(*     BayesianAttentionWithMemory): memory slots, the contextual prior,   *)
(*     stochastic attention and the kl attribute;                          *)
(*   - two interleaved invocations of SATDecoder.forward, and the          *)
(*     unimplemented BayesianSATDecoder;                                   *)
(*   - the data and training utilities around the core: the lazy cache of  *)
(*     Flickr30KFeatures and the worker pool of the Flickr30k constructor  *)
(*     (src/src/data/augmentation.py), EarlyStopping and                   *)
(*     NLPMetricAggregator (src/src/utils.py).                             *)
(*                                                                         *)
(* Numbers.  Tensors are sequences of integers.  A probability or a rate   *)
(* n stands for n / RateDen.  exp is taken in base 2 on integer logits, so *)
(* a softmax weight is an exact rational <<numerator, denominator>>.       *)
(* Learned layers (nn.Linear, nn.Embedding, nn.LSTMCell) are fixed to one  *)
(* small integer instance each; the claims checked here are about control  *)
(* flow, data flow and shapes, which do not depend on the weights.         *)
(***************************************************************************)
EXTENDS Integers, Sequences, FiniteSets, TLC

\* ------------------------------------------------------------------ bounds
BatchSize == 2        \* x.size(0): items per batch
NumAnnotations == 2   \* L = x.size(1): annotation vectors per image
RateDen == 2          \* resolution of rates and uniform draws (n means n/RateDen)
MaxConv == 2          \* largest convergence_rate passed to the update, in 1/RateDen
HiddenMax == 2        \* hidden/memory values range over -HiddenMax..HiddenMax

NumQueries == 1       \* Nq = queries.size(1)
NumKeys == 2          \* Nk = keys.size(1)
MaxStubCalls == 4     \* calls made on BayesianSATDecoder in one behaviour

NumImages == 3        \* image ids selected from the archive
CapsPerImage == 2     \* captions stored per image
MaxStopCalls == 4     \* calls made on one EarlyStopping in one behaviour
MaxMetric == 2        \* metric arguments range over -MaxMetric..MaxMetric
MaxUpdates == 3       \* update calls made on one NLPMetricAggregator in one behaviour

\* ------------------------------------------- SATDecoder constructor arguments
max_cap_size == 3     \* self._max_cap_size (T)
vocab_size == 2       \* self.vocab_size (V)

\* ------------------------------------------- Attention
NegInf == -1000000    \* -np.inf, the fill value of masked_fill
EpsInv == 16          \* eps (line 21) is 1 / EpsInv
NoSlots == 0          \* num_memory_slots = None (line 458): no memory

\* ------------------------------------------- Flickr30KFeatures constructor arguments
max_detect == 2       \* self.max_detect

VARIABLES
  rate,          \* self._teacher_forcing_rate, in 1/RateDen
  pc,            \* position of the forward call: "idle", "loop", "done", "error"
  training,      \* nn.Module.training of the decoder during the call (drives dropout)
  ss,            \* argument scheduled_sampling
  x,             \* argument x after view: batch x L annotation values
  captions,      \* argument captions: batch x W token ids, <<>> for None
  lengths,       \* argument lengths: batch x 1 caption lengths, <<>> for None
  i,             \* loop variable of `for i in range(self._max_cap_size)`
  h, c,          \* hidden / memory vectors (one value per batch item)
  prev_words,    \* prev_words: batch token ids
  predictions,   \* predictions: batch x T x V scores
  alphas,        \* the attention tensor: batch x T x L rationals
  trace,         \* history: one record per executed step
  exit,          \* how the loop ended: "none", "range", "break", "index"
  key_size,      \* Attention: self.key_size (Dk), set at construction
  a_pc,          \* Attention.forward: "idle", "returned", "raised"
  a_queries,     \* argument queries: Nq values (out_size = 1)
  a_keys,        \* argument keys: Nk values
  a_values,      \* argument values: Nk values
  a_mask,        \* argument attention_mask: Nq x Nk booleans (TRUE = masked), <<>> for None
  a_weights,     \* argument attention_weights: Nq x Nk numbers, <<>> for None
  a_raw,         \* `attention` after line 176: Nq x Nk scores
  a_weighted,    \* `attention` after the weighting step (line 147)
  a_scores,      \* `attention` returned by process_masks_and_weights
  a_soft,        \* `attention` after softmax: Nq x Nk rationals
  a_out,         \* the returned output: Nq rationals
  bayesian,      \* AttentionLayer: self.bayesian
  num_mem_slots, \* AttentionLayer: num_memory_slots, NoSlots for None
  l_training,    \* nn.Module.training of the layer and its attention during the call
  att_kl,        \* self.attention.kl
  layer_kl,      \* the layer's self.kl
  alpha_gamma,   \* self.attention.alpha_gamma (prior_att_weights * beta_gamma)
  a_prior,       \* dot_gamma after masking in compute_prior, <<>> when not computed
  a_unif,        \* unif = torch.rand_like(logprobs), <<>> when not drawn
  a_first,       \* the caller's copy of the result of the first of two identical calls
  calls,         \* interleaved SATDecoder.forward invocations: the locals of each
  interleaved,   \* history: an iteration ran while another invocation was mid-loop
  bs_calls,      \* BayesianSATDecoder: the calls made so far and how each ended
  dataset,       \* a Flickr30KFeatures: cache_mode, feature_mode, cached, and the
                 \* position, index and result of the __getitem__ call under way
  stopper,       \* an EarlyStopping: its attributes, the argument of the last call
                 \* (metric), the state last saved and the number of calls
  tracker,       \* an NLPMetricAggregator: its lists and its meteor meter; history:
                 \* the updates since the last reset and whether reset was called
  pool           \* the Flickr30k constructor from line 69 on: the submitted keys,
                 \* the status of each job, the position of the merge loop, the
                 \* merged dictionaries and ann_list; history: the completion order

decVars == <<rate, pc, training, ss, x, captions, lengths, i, h, c,
             prev_words, predictions, alphas, trace, exit>>

attVars == <<key_size, a_pc, a_queries, a_keys, a_values, a_mask, a_weights,
             a_raw, a_weighted, a_scores, a_soft, a_out>>

layVars == <<bayesian, num_mem_slots, l_training, att_kl, layer_kl, alpha_gamma,
             a_prior, a_unif, a_first>>

conVars == <<calls, interleaved>>

stubVars == <<bs_calls>>

utilVars == <<dataset, stopper, tracker, pool>>

\* the variables outside each component
notDecVars == <<attVars, layVars, conVars, stubVars, utilVars>>
notAttVars == <<decVars, layVars, conVars, stubVars, utilVars>>
notLayVars == <<decVars, conVars, stubVars, utilVars>>
notConVars == <<decVars, attVars, layVars, stubVars, utilVars>>
notStubVars == <<decVars, attVars, layVars, conVars, utilVars>>
coreVars == <<decVars, attVars, layVars, conVars, stubVars>>
notDataVars == <<coreVars, stopper, tracker, pool>>
notStopVars == <<coreVars, dataset, tracker, pool>>
notTrackVars == <<coreVars, dataset, stopper, pool>>
notPoolVars == <<coreVars, dataset, stopper, tracker>>

vars == <<decVars, attVars, layVars, conVars, stubVars, utilVars>>

\* ---------------------------------------------------------------- helpers
Max(a, b) == IF a >= b THEN a ELSE b

Batch == 1..BatchSize

RECURSIVE Pow2(_)
Pow2(n) == IF n <= 0 THEN 1 ELSE 2 * Pow2(n - 1)

RECURSIVE SeqSum(_)
SeqSum(s) == IF s = <<>> THEN 0 ELSE Head(s) + SeqSum(Tail(s))

\* Python's max(iterable)
RECURSIVE SeqMax(_)
SeqMax(s) == IF Len(s) = 1 THEN s[1] ELSE Max(Head(s), SeqMax(Tail(s)))

\* keeps hidden values in the finite range -HiddenMax..HiddenMax
Wrap(z) == ((z + HiddenMax) % (2 * HiddenMax + 1)) - HiddenMax

\* F.relu
Relu(z) == Max(0, z)

\* torch.zeros(n)
Zeros(n) == [k \in 1..n |-> 0]

\* the rational 0 and a row of L of them (torch.zeros for the attention tensor)
RatZero == <<0, 1>>
RatZeros(n) == [k \in 1..n |-> RatZero]

\* ------------------------------------------------------------ SATDecoder
\* update_scheduled_sampling_rate: linear ramp clipped at zero
AsUnclampedRate(old, r) == old - r
update_scheduled_sampling_rate(old, r) ==
  LET t == old - r IN IF t <= 0 THEN 0 ELSE t

\* `scheduled_sampling and np.random.uniform(0, 1) < self._teacher_forcing_rate`
AsInclusiveDraw(sched, u, r) == sched /\ u <= r
UseTeacherForcing(sched, u, r) == sched /\ u < r

\* `i > max(lengths[0])`: Python's max over the first row of lengths
PastCaptions(step, lens) == step > SeqMax(lens[1])

\* F.softmax / torch.softmax over integer logits e, base 2: weight j is
\* 2^e[j] / sum_k 2^e[k], computed after subtracting the smallest finite logit;
\* a logit of -inf has weight 0, and a row of -inf only is 0/0 (nan)
MinFinite(e) ==
  LET fin == { j \in 1..Len(e) : e[j] # NegInf }
  IN IF fin = {} THEN 0
     ELSE e[CHOOSE j \in fin : \A k \in fin : e[j] <= e[k]]
ExpFrom(e, lo) ==
  [j \in 1..Len(e) |-> IF e[j] = NegInf THEN 0 ELSE Pow2(e[j] - lo)]
ExpShifted(e) == ExpFrom(e, MinFinite(e))
DivideBy(w, den) == [j \in 1..Len(w) |-> <<w[j], den>>]
Normalise(w) == DivideBy(w, SeqSum(w))
AsUnnormalised(e) == DivideBy(ExpShifted(e), 1)
Softmax(e) == Normalise(ExpShifted(e))

\* SATAttention.forward, line 41: e = attention_model(relu(fv_shaped + hidden_state_shaped))
Energies(fv, hid) == [j \in 1..Len(fv) |-> Relu(fv[j] + hid)]

\* SATAttention.forward, line 47: zhat = (feature_vectors * alpha.unsqueeze(2)).sum(dim=1)
Context(fv, alpha) ==
  SeqSum([j \in 1..Len(fv) |-> fv[j] * alpha[j][1]]) \div alpha[1][2]

\* SATAttention.forward for one batch item: (zhat, alpha)
WithContext(fv, alpha) == [zhat |-> Context(fv, alpha), alpha |-> alpha]
SATAttention(fv, hid) == WithContext(fv, Softmax(Energies(fv, hid)))

\* nn.Sigmoid on an integer logit, base 2, as a rational
Sigmoid(z) == IF z >= 0 THEN <<Pow2(z), Pow2(z) + 1>> ELSE <<1, 1 + Pow2(-z)>>

\* gate = sigmoid(f_beta(h)); zhat = gate * zhat
Gate(hid, zhat) == LET g == Sigmoid(hid) IN (zhat * g[1]) \div g[2]

\* nn.Embedding lookup of a token id
Embedding(tok) == tok + 1

\* nn.LSTMCell on cat([embedded, zhat]) and (h, c): the next (h, c)
Recurrent(emb, zhat, hid, mem) ==
  LET c2 == Wrap(mem + emb - zhat)
  IN [h |-> Wrap(c2 - hid), c |-> c2]

\* nn.Dropout(0.5): identity in eval mode; in training mode a kept element is
\* scaled by 1 / (1 - 0.5) and a dropped one is 0
Dropout(hid, keep, train) == IF train THEN 2 * hid * keep ELSE hid

\* deep_output: Linear(hidden, vocabulary), bias 0 (initialize_weights)
DeepOutput(hd) == [v \in 1..vocab_size |-> (2 * v - vocab_size - 1) * hd]

\* torch.argmax over a score vector: the first index of the maximum, as a token id
ArgMax(s) == (CHOOSE v \in 1..Len(s) :
                /\ \A w \in 1..Len(s) : s[w] <= s[v]
                /\ \A w \in 1..(v - 1) : s[w] < s[v]) - 1

\* initialize_hidden_states: relu of a linear map of the mean annotation
InitHidden(xs) ==
  LET mean == [b \in Batch |-> SeqSum(xs[b]) \div Len(xs[b])]
  IN [h |-> [b \in Batch |-> Relu(Wrap(mean[b]))],
      c |-> [b \in Batch |-> Relu(Wrap(1 - mean[b]))]]

\* torch.zeros(batch_size, self._max_cap_size, vocab_size)
AsOnesPredictions ==
  [b \in Batch |-> [t \in 1..max_cap_size |-> [v \in 1..vocab_size |-> 1]]]
NewPredictions == [b \in Batch |-> [t \in 1..max_cap_size |-> Zeros(vocab_size)]]

\* torch.zeros(batch_size, self._max_cap_size, x.size(1))
NewAlphas(xs) == [b \in Batch |-> [t \in 1..max_cap_size |-> RatZeros(Len(xs[1]))]]

\* `tensor[:, i, :] = rows`
AsAppendRow(tensor, step, rows) == [b \in Batch |-> Append(tensor[b], rows[b])]
StoreStep(tensor, step, rows) ==
  [b \in Batch |-> [tensor[b] EXCEPT ![step + 1] = rows[b]]]

\* the loop variable of `for i in range(...)` after one iteration
NextIndex(step) == step + 1

\* prev_words after the teacher-forced branch (line 248)
AsStalePrevWords(scores, prev) == prev
ForcedPrevWords(scores, prev) == [b \in Batch |-> ArgMax(scores[b])]

\* ------------------------------------------------------------ forward, as a function of its locals
\* the locals of one SATDecoder.forward invocation (lines 202-226): no attribute
\* of the decoder holds any of them
IdleCall ==
  [pc |-> "idle", training |-> TRUE, ss |-> FALSE, x |-> <<>>, captions |-> <<>>,
   lengths |-> <<>>, i |-> 0, h |-> <<>>, c |-> <<>>, prev_words |-> <<>>,
   predictions |-> <<>>, alphas |-> <<>>, draws |-> <<>>, exit |-> "none"]

\* lines 202-226: the locals when the loop is entered
BeginCall(xs, caps, lens, sched, train) ==
  [pc |-> "loop", training |-> train, ss |-> sched, x |-> xs, captions |-> caps,
   lengths |-> lens, i |-> 0, h |-> InitHidden(xs).h, c |-> InitHidden(xs).c,
   prev_words |-> Zeros(BatchSize), predictions |-> NewPredictions,
   alphas |-> NewAlphas(xs), draws |-> <<>>, exit |-> "none"]

\* the assignments of one executed iteration (lines 243-249 / 259-265)
ExecAssign(loc, tf, u, keep, att, hc, scores) ==
  [loc EXCEPT !.h = [b \in Batch |-> hc[b].h],
              !.c = [b \in Batch |-> hc[b].c],
              !.predictions = StoreStep(loc.predictions, loc.i, scores),
              !.prev_words = IF tf THEN ForcedPrevWords(scores, loc.prev_words)
                             ELSE [b \in Batch |-> ArgMax(scores[b])],
              !.alphas = StoreStep(loc.alphas, loc.i, [b \in Batch |-> att[b].alpha]),
              !.i = NextIndex(loc.i),
              !.draws = Append(loc.draws, [u |-> u, keep |-> keep])]

\* `scores = self.deep_output(self.dropout(h))`
ExecScores(loc, tf, u, keep, att, hc) ==
  ExecAssign(loc, tf, u, keep, att, hc,
             [b \in Batch |-> DeepOutput(Dropout(hc[b].h, keep[b], loc.training))])

\* `h, c = self.recurrent(torch.cat([embedded, gate * zhat], dim=1), (h, c))`
ExecCell(loc, toks, tf, u, keep, att) ==
  ExecScores(loc, tf, u, keep, att,
             [b \in Batch |->
                Recurrent(Embedding(toks[b]), Gate(loc.h[b], att[b].zhat),
                          loc.h[b], loc.c[b])])

\* `zhat, alpha = self.attention(x, h)`
ExecStep(loc, toks, tf, u, keep) ==
  ExecCell(loc, toks, tf, u, keep, [b \in Batch |-> SATAttention(loc.x[b], loc.h[b])])

\* one pass through the loop header and body (lines 227-265) with the draws u
\* (uniform) and keep (dropout), at teacher-forcing rate r
StepOf(loc, r, u, keep) ==
  IF loc.i >= max_cap_size
  THEN [loc EXCEPT !.pc = "done", !.exit = "range"]
  ELSE IF UseTeacherForcing(loc.ss, u, r)
       THEN IF PastCaptions(loc.i, loc.lengths)
            THEN [loc EXCEPT !.pc = "done", !.exit = "break"]
            ELSE IF loc.i >= Len(loc.captions[1])
                 THEN [loc EXCEPT !.pc = "error", !.exit = "index"]
                 ELSE ExecStep(loc, [b \in Batch |-> loc.captions[b][loc.i + 1]],
                               TRUE, u, keep)
       ELSE ExecStep(loc, loc.prev_words, FALSE, u, keep)

\* the locals an iteration of invocation k works on: its own
AsSharedHidden(cs, k) ==
  IF \E j \in DOMAIN cs : j < k /\ cs[j].pc = "loop"
  THEN [cs[k] EXCEPT !.h = cs[1].h, !.c = cs[1].c]
  ELSE cs[k]
OwnLocals(cs, k) == cs[k]

\* forward only reads self._teacher_forcing_rate (line 229)
AsDecayInForward(r) == update_scheduled_sampling_rate(r, 1)
RateKept(r) == r

\* ------------------------------------------------------------ BayesianSATDecoder
\* __init__ (lines 270-272): super().__init__(), then raise NotImplementedError;
\* no instance is handed to the caller
AsReturnsInstance == [raised |-> "none", instance |-> TRUE]
BayesianSATDecoderInit == [raised |-> "NotImplementedError", instance |-> FALSE]

\* forward (lines 274-275), called on an object allocated without __init__
BayesianSATDecoderForward(xs) == [raised |-> "NotImplementedError", instance |-> FALSE]

\* ------------------------------------------------------------ Attention
\* One batch item and one head; out_size = 1 and value_size = 1.

\* math.sqrt on a key size that is a perfect square (exact in floating point)
ISqrt(n) == CHOOSE r \in 0..n : r * r = n

\* self.scale = 1 / math.sqrt(key_size), as the rational <<1, sqrt(key_size)>>
Scale(dk) == <<1, ISqrt(dk)>>

\* querygen, keygen, valuegen: Linear maps with bias 0 into the head's subspace
QueryGen(q, dk) == [d \in 1..dk |-> IF d = 1 THEN q ELSE 0]
KeyGen(k, dk) == [d \in 1..dk |-> k]
ValueGen(v) == v

\* preprocess_inputs: the projected queries, keys and values of the head
PreprocessInputs(qs, ks, vs, dk) ==
  [queries |-> [n \in 1..Len(qs) |-> QueryGen(qs[n], dk)],
   keys |-> [m \in 1..Len(ks) |-> KeyGen(ks[m], dk)],
   values |-> [m \in 1..Len(vs) |-> ValueGen(vs[m])]]

\* one entry of torch.matmul(queries, keys)
Dot(a, b) == SeqSum([d \in 1..Len(a) |-> a[d] * b[d]])

\* `attention = torch.matmul(queries, keys) / self.scale`
RawScores(pq, pk, dk) ==
  [n \in 1..Len(pq) |-> [m \in 1..Len(pk) |->
     (Dot(pq[n], pk[m]) * Scale(dk)[2]) \div Scale(dk)[1]]]

\* a bool tensor as a factor of a float tensor
BoolInt(b) == IF b THEN 1 ELSE 0

\* `attention *= attention_mask` with attention_mask None: TypeError
WeightsRaise(mask, weights) == weights # <<>> /\ mask = <<>>

\* lines 145-147: `if attention_weights is not None: attention *= attention_mask`
ApplyWeights(att, mask, weights) ==
  IF weights # <<>>
  THEN [n \in 1..Len(att) |-> [m \in 1..Len(att[n]) |->
          att[n][m] * BoolInt(mask[n][m])]]
  ELSE att

\* lines 148-149: `attention.masked_fill(attention_mask, -np.inf)`
AsZeroFill(att, mask) ==
  IF mask # <<>>
  THEN [n \in 1..Len(att) |-> [m \in 1..Len(att[n]) |->
          IF mask[n][m] THEN 0 ELSE att[n][m]]]
  ELSE att
MaskedFill(att, mask) ==
  IF mask # <<>>
  THEN [n \in 1..Len(att) |-> [m \in 1..Len(att[n]) |->
          IF mask[n][m] THEN NegInf ELSE att[n][m]]]
  ELSE att

\* torch.matmul(attention, values), then the output Linear map
AttnOutput(soft, pv) ==
  [n \in 1..Len(soft) |->
     <<SeqSum([m \in 1..Len(pv) |-> soft[n][m][1] * pv[m]]), soft[n][1][2]>>]

\* ------------------------------------------------------------ AttentionWithMemory
\* mem_keys / mem_values: the learned slots, one fixed instance (line 203-204)
MemKeysParam(M, dk) == [s \in 1..M |-> [d \in 1..dk |-> IF d = 1 THEN s % 2 ELSE 0]]
MemValuesParam(M) == [s \in 1..M |-> (s + 1) % 2]

\* lines 227-232: mem_key = sqrt(key_size) * mem_keys, mem_val = sqrt(num_mem_slots) * mem_values
MemKey(M, dk) == [s \in 1..M |-> [d \in 1..dk |-> ISqrt(dk) * MemKeysParam(M, dk)[s][d]]]
MemVal(M) == [s \in 1..M |-> ISqrt(M) * MemValuesParam(M)[s]]

\* AttentionWithMemory.preprocess_inputs: the slots are concatenated after the
\* projected keys and values (lines 238, 241)
AsWithoutSlots(qs, ks, vs, dk, M) == PreprocessInputs(qs, ks, vs, dk)
MemPreprocessInputs(qs, ks, vs, dk, M) ==
  [queries |-> [n \in 1..Len(qs) |-> QueryGen(qs[n], dk)],
   keys |-> [m \in 1..Len(ks) |-> KeyGen(ks[m], dk)] \o MemKey(M, dk),
   values |-> [m \in 1..Len(vs) |-> ValueGen(vs[m])] \o MemVal(M)]

\* `attention[:, :, :, : self.key_size]` and `attention[:, :, :, self.key_size :]`
Min(a, b) == IF a <= b THEN a ELSE b
SliceTo(row, k) == SubSeq(row, 1, Min(k, Len(row)))
SliceFrom(row, k) == SubSeq(row, Min(k, Len(row)) + 1, Len(row))

\* broadcasting of the last axis in an elementwise product
Broadcastable(a, b) == Len(a) = Len(b) \/ Len(a) = 1 \/ Len(b) = 1
BroadcastMul(a, b) ==
  [m \in 1..Max(Len(a), Len(b)) |->
     a[IF Len(a) = 1 THEN 1 ELSE m] * b[IF Len(b) = 1 THEN 1 ELSE m]]

\* lines 273-277: the product of the first key_size columns with the weights
\* raises when the two widths cannot be broadcast
MemWeightsRaise(att, weights, dk) ==
  /\ weights # <<>>
  /\ \E n \in 1..Len(att) : ~Broadcastable(SliceTo(att[n], dk), weights[n])

\* lines 273-277: cat([attention[..., :key_size] * attention_weights, attention[..., key_size:]])
MemApplyWeights(att, weights, dk) ==
  IF weights # <<>>
  THEN [n \in 1..Len(att) |->
          BroadcastMul(SliceTo(att[n], dk), weights[n]) \o SliceFrom(att[n], dk)]
  ELSE att

\* lines 278-279: masked_fill on the first num_keys columns only
AsMaskWholeAxis(att, nk, mask) ==
  IF mask # <<>>
  THEN [n \in 1..Len(att) |-> [m \in 1..Len(att[n]) |->
          IF mask[n][((m - 1) % nk) + 1] THEN NegInf ELSE att[n][m]]]
  ELSE att
MemMaskedFill(att, nk, mask) ==
  IF mask # <<>>
  THEN [n \in 1..Len(att) |-> [m \in 1..Len(att[n]) |->
          IF m <= nk /\ mask[n][m] THEN NegInf ELSE att[n][m]]]
  ELSE att

\* process_masks_and_weights of Attention / AttentionWithMemory: the weighting
\* step, then the masking step
AsWeightsElseMask(att, nk, mask, weights, dk, M) ==
  IF weights # <<>>
  THEN (IF M = NoSlots THEN ApplyWeights(att, mask, weights)
        ELSE MemApplyWeights(att, weights, dk))
  ELSE (IF M = NoSlots THEN MaskedFill(att, mask)
        ELSE MemMaskedFill(att, nk, mask))
ProcessMasksAndWeights(att, nk, mask, weights, dk, M) ==
  IF M = NoSlots
  THEN MaskedFill(ApplyWeights(att, mask, weights), mask)
  ELSE MemMaskedFill(MemApplyWeights(att, weights, dk), nk, mask)

\* the weighting step of process_masks_and_weights raises
ProcessRaises(att, mask, weights, dk, M) ==
  IF M = NoSlots THEN WeightsRaise(mask, weights) ELSE MemWeightsRaise(att, weights, dk)

\* preprocess_inputs of the class the layer wraps
Preprocess(qs, ks, vs, dk, M) ==
  IF M = NoSlots THEN PreprocessInputs(qs, ks, vs, dk)
  ELSE MemPreprocessInputs(qs, ks, vs, dk, M)

\* torch.softmax(attention, dim=-1) row by row
SoftmaxRows(att) == [n \in 1..Len(att) |-> Softmax(att[n])]

\* torch.matmul(attention, values) raises when the key axes differ
MatmulRaises(soft, pv) == \E n \in 1..Len(soft) : Len(soft[n]) # Len(pv)

\* ------------------------------------------------------------ BayesianAttention
\* the kl attribute: absent, the constructor's 0 (line 304), or kl.mean() of
\* line 346, a fixed closed form of (alpha_gamma, logprobs) kept as its arguments
KlUnset == [tag |-> "unset", alpha |-> <<>>, logprobs |-> <<>>]
KlZero == [tag |-> "zero", alpha |-> <<>>, logprobs |-> <<>>]
KlValue(alpha, logprobs) == [tag |-> "kl", alpha |-> alpha, logprobs |-> logprobs]

\* nn.LeakyReLU (negative slope 0.01)
LeakyRelu(z) == IF z >= 0 THEN z ELSE -((-z) \div 100)

\* prior_layer2(relu(prior_layer1(key))) for one key position: Linear maps with
\* unit weights
PriorLogit(key) == LeakyRelu(SeqSum(key))

\* line 321 / 403: dot_gamma, one row over the key axis
DotGamma(pk) == <<[m \in 1..Len(pk) |-> PriorLogit(pk[m])]>>

\* BayesianAttention.compute_prior, lines 322-323: out-of-place masked_fill,
\* dot_gamma is broadcast against the mask
PriorMasked(dg, mask) ==
  IF mask # <<>>
  THEN [n \in 1..Len(mask) |-> [m \in 1..Len(dg[1]) |->
          IF mask[n][m] THEN NegInf ELSE dg[1][m]]]
  ELSE dg

\* BayesianAttentionWithMemory.compute_prior, lines 404-405: the assignment into
\* dot_gamma[:, :, :, :num_keys] raises when the mask has more than one query row
MemPriorRaises(dg, mask) == mask # <<>> /\ Len(mask) > Len(dg)
MemPriorMasked(dg, nk, mask) ==
  IF mask # <<>>
  THEN [n \in 1..Len(dg) |-> [m \in 1..Len(dg[n]) |->
          IF m <= nk /\ mask[n][m] THEN NegInf ELSE dg[n][m]]]
  ELSE dg

\* compute_prior of the wrapped class: the masked dot_gamma
PriorRaises(dg, mask, M) == M # NoSlots /\ MemPriorRaises(dg, mask)
ComputePrior(dg, nk, mask, M) ==
  IF M = NoSlots THEN PriorMasked(dg, mask) ELSE MemPriorMasked(dg, nk, mask)

\* line 329: softmax(attention) + eps with eps = 1 / EpsInv; logprobs is the
\* logarithm of these rationals and is kept as them
AddEps(row) ==
  [j \in 1..Len(row) |-> <<row[j][1] * EpsInv + row[j][2], row[j][2] * EpsInv>>]
LogProbs(att) == [n \in 1..Len(att) |-> AddEps(Softmax(att[n]))]

\* lines 331-335: softmax(logprobs - noise(unif)); the noise of a draw u is u
\* binary orders of magnitude
SampleRow(lp, u) ==
  Normalise([j \in 1..Len(lp) |-> lp[j][1] * Pow2(1 - u[j])])
StochasticAttention(logprobs, unif) ==
  [n \in 1..Len(logprobs) |-> SampleRow(logprobs[n], unif[n])]

\* line 339: `self.alpha_gamma * (logprobs - ...)` raises when the last axes
\* of alpha_gamma and logprobs cannot be broadcast
KlRaises(alpha, logprobs) ==
  \E n \in 1..Len(logprobs) :
    ~Broadcastable(alpha[IF Len(alpha) = 1 THEN 1 ELSE n], logprobs[n])

\* `if self.training:` in the forward of the Bayesian classes
AsAlwaysStochastic(bayes, train) == bayes
Stochastic(bayes, train) == bayes /\ train

\* the alpha_gamma that stochastic_attention reads: the attribute as set by the
\* compute_prior call just before it
AsStalePrior(old, new) == old
PriorRead(old, new) == new

\* AttentionLayer.forward, lines 515-516: `if self.bayesian: self.kl = self.attention.kl`
AsFreshKlOnly(bayes, old, inner) ==
  IF bayes /\ inner.tag = "kl" THEN inner ELSE old
LayerKl(bayes, old, inner) == IF bayes THEN inner ELSE old

\* ------------------------------------------------------------ Flickr30k / Flickr30KFeatures
\* the archive: per image key the attrs "captions" and "lengths" and the
\* datasets "global_features" and "region_features" (image n has n regions)
Images == 1..NumImages
ArchiveCaptions(img) == [j \in 1..CapsPerImage |-> <<img, j>>]
ArchiveLengths(img) == [j \in 1..CapsPerImage |-> 2]
GlobalFeatures(img) == <<10 * img>>
RegionFeatures(img) == [d \in 1..img |-> <<10 * img + d>>]

\* lines 74-76: the (id, cap) pairs one merged job appends to ann_list
AnnPairs(img, caps) == [j \in 1..Len(caps) |-> <<img, caps[j]>>]

\* ann_list after the constructor merged the keys in the order `keys`
RECURSIVE AnnListOf(_)
AnnListOf(keys) ==
  IF keys = <<>> THEN <<>>
  ELSE AnnPairs(Head(keys), ArchiveCaptions(Head(keys))) \o AnnListOf(Tail(keys))

\* lines 57-60: the keys kept under smoke_test / fast_test
Select(keys, smoke_test, fast_test) ==
  IF smoke_test THEN SliceTo(keys, 2)
  ELSE IF fast_test THEN SliceTo(keys, Len(keys) \div 10)
  ELSE keys

\* lines 67-69: the pool with one job per key submitted, none merged yet
PoolNew(keys, num_processes) ==
  [pc |-> "loop", keys |-> keys, num_processes |-> num_processes,
   jobs |-> [j \in 1..Len(keys) |-> "queued"], pos |-> 1,
   annotations |-> <<>>, lengths |-> <<>>, ann_list |-> <<>>, ids |-> <<>>,
   finished |-> <<>>]

\* job.wait() returns once the job has completed, with a result or an exception
AsNoWait(status) == TRUE
JobReady(status) == status \in {"done", "failed"}

\* dict.update with a one-key dictionary
DictUpdate(dct, key, val) ==
  [k \in (DOMAIN dct) \cup {key} |-> IF k = key THEN val ELSE dct[k]]

\* lines 72-77: the merge of the result of the job of `key`
MergeJob(pl, key) ==
  [pl EXCEPT !.annotations = DictUpdate(pl.annotations, key, ArchiveCaptions(key)),
             !.ann_list = pl.ann_list \o AnnPairs(key, ArchiveCaptions(key)),
             !.lengths = DictUpdate(pl.lengths, key, ArchiveLengths(key)),
             !.pos = pl.pos + 1]

\* list(sorted(...)) of a set of keys
RECURSIVE SortedSeq(_)
SortedSeq(S) ==
  IF S = {} THEN <<>>
  ELSE LET lo == CHOOSE k \in S : \A o \in S : k <= o
       IN <<lo>> \o SortedSeq(S \ {lo})

\* lines 140-150: the features of an image, by feature_mode
RegionsTo(rows, n) ==
  [d \in 1..n |-> IF d <= Len(rows) THEN rows[d] ELSE Zeros(Len(rows[1]))]
Features(img, feature_mode) ==
  IF feature_mode = "region"
  THEN RegionsTo(RegionFeatures(img), max_detect)
  ELSE <<GlobalFeatures(img)>>

\* line 134-135: `self.cache_mode and self.cached.get(img_id, False)`; the
\* cache is keyed by the image id alone
CacheHit(cache_mode, cached, img) == cache_mode /\ cached[img] # <<>>

\* Flickr30KFeatures.__getitem__ (lines 133-159) with target_transform None:
\* what it returns and the cache it leaves
GetItemOf(cache_mode, feature_mode, cached, img, target) ==
  IF CacheHit(cache_mode, cached, img)
  THEN [ret |-> <<cached[img][1], cached[img][2], img>>, cached |-> cached]
  ELSE [ret |-> <<Features(img, feature_mode), target, img>>,
        cached |-> IF cache_mode
                   THEN [cached EXCEPT ![img] = <<Features(img, feature_mode), target>>]
                   ELSE cached]
GetItem(cache_mode, feature_mode, cached, ann_list, index) ==
  GetItemOf(cache_mode, feature_mode, cached, ann_list[index + 1][1],
            ann_list[index + 1][2])

\* ------------------------------------------------------------ EarlyStopping
\* np.inf; -np.inf is NegInf
Inf == -NegInf

\* abs(metric), line 103
Abs(m) == IF m < 0 THEN -m ELSE m

\* `self.best_metric - self.delta`, `self.best_metric + self.delta`: an
\* infinite best metric stays infinite
AddDelta(best, d) == IF best = Inf \/ best = NegInf THEN best ELSE best + d

\* the condition of lines 105-107 on the metric after abs
NotImproved(mode, best, delta, metric) ==
  \/ mode = "min" /\ AddDelta(best, -delta) <= metric
  \/ mode = "max" /\ AddDelta(best, delta) >= metric

\* EarlyStopping.__init__ (lines 92-99)
EarlyStoppingNew(mode, delta, patience) ==
  [mode |-> mode, delta |-> delta, patience |-> patience, counter |-> 0,
   stop |-> FALSE, best_metric |-> IF mode = "min" THEN Inf ELSE NegInf,
   metric |-> 0, saved |-> 0, calls |-> 0]

\* lines 108-111: no improvement
CountUp(e, arg) ==
  [e EXCEPT !.counter = e.counter + 1,
            !.stop = e.stop \/ e.counter + 1 >= e.patience,
            !.metric = arg, !.calls = e.calls + 1]

\* lines 113-115: improvement; torch.save(state, self.checkpoint)
RecordBest(e, arg, metric, state) ==
  [e EXCEPT !.best_metric = metric, !.saved = state, !.counter = 0,
            !.metric = arg, !.calls = e.calls + 1]

\* EarlyStopping.__call__(metric, state) (lines 101-115)
EarlyStoppingCall(e, arg, state) ==
  IF NotImproved(e.mode, e.best_metric, e.delta, Abs(arg))
  THEN CountUp(e, arg)
  ELSE RecordBest(e, arg, Abs(arg), state)

\* ------------------------------------------------------------ NLPMetricAggregator
\* inv_word_map: token id to word
InvWordMap == <<"<pad>", "<start>", "a", "b">>
Word(tok) == InvWordMap[tok + 1]

\* convert_tokens_to_string (line 33): the words of the caption without
\* "<pad>" and "<start>"; the joined string is kept as the sequence of its words
RECURSIVE ConvertTokensToString(_)
ConvertTokensToString(caption) ==
  IF caption = <<>> THEN <<>>
  ELSE IF Word(Head(caption)) \in {"<pad>", "<start>"}
       THEN ConvertTokensToString(Tail(caption))
       ELSE <<Word(Head(caption))>> \o ConvertTokensToString(Tail(caption))

\* nltk's meteor_score on tokenised references and hypothesis (a library
\* outside the repository), fixed to one stand-in score: 1 when the hypothesis
\* is one of the references, else 0.  The library's value for such a match is
\* positive but below 1 and a partial match scores above 0; only the fact that
\* a matching update adds a positive score to the meter is used
MeteorScore(refs, pred) == IF \E k \in 1..Len(refs) : refs[k] = pred THEN 1 ELSE 0

\* np.round(n / d, 4) in ten-thousandths, ties to even
Round4(n, d) ==
  LET q == (10000 * n) \div d
      r == (10000 * n) % d
  IN IF 2 * r > d \/ (2 * r = d /\ q % 2 = 1) THEN q + 1 ELSE q

\* AverageMeter.get_average (lines 71-74), rounded as in line 59
MeteorAverage(sum, count) == IF count = 0 THEN 0 ELSE Round4(sum, count)

\* NLPMetricAggregator.__init__ (lines 23-30): a new AverageMeter, then reset()
AggregatorNew ==
  [predicted_captions |-> <<>>, reference_captions |-> <<>>,
   meteor_sum |-> 0, meteor_count |-> 0]

\* update (lines 37-42) once the captions are converted
UpdateWith(a, predicted, reference) ==
  [a EXCEPT !.meteor_sum = a.meteor_sum + MeteorScore(reference, predicted),
            !.meteor_count = a.meteor_count + 1,
            !.predicted_captions = Append(a.predicted_captions, predicted),
            !.reference_captions = Append(a.reference_captions, reference)]

\* NLPMetricAggregator.update(predicted, reference)
AggregatorUpdate(a, predicted, reference) ==
  UpdateWith(a, ConvertTokensToString(predicted),
             [k \in 1..Len(reference) |-> ConvertTokensToString(reference[k])])

\* NLPMetricAggregator.reset (lines 44-46)
AggregatorReset(a) ==
  [a EXCEPT !.predicted_captions = <<>>, !.reference_captions = <<>>]

\* a torchmetrics score called on the two lists: a fixed function of them, kept
\* as its arguments
ListMetric(name, predicted, reference) ==
  [metric |-> name, predicted |-> predicted, reference |-> reference]

\* generate_metric_summaries (lines 53-60)
GenerateMetricSummaries(a) ==
  [bleu1 |-> ListMetric("bleu1", a.predicted_captions, a.reference_captions),
   bleu2 |-> ListMetric("bleu2", a.predicted_captions, a.reference_captions),
   bleu3 |-> ListMetric("bleu3", a.predicted_captions, a.reference_captions),
   bleu4 |-> ListMetric("bleu4", a.predicted_captions, a.reference_captions),
   rouge_fmeasure |-> ListMetric("rouge1_fmeasure", a.predicted_captions,
                                 a.reference_captions),
   meteor |-> MeteorAverage(a.meteor_sum, a.meteor_count)]

\* ------------------------------------------------------------ input sets
ConvRates == 0..MaxConv
Draws == 0..(RateDen - 1)          \* np.random.uniform(0, 1) lies in [0, 1)
CapWidths == {max_cap_size - 1, max_cap_size}
XPool == { [b \in Batch |-> [j \in 1..NumAnnotations |-> (b + j + s) % 3]] : s \in 0..1 }
CaptionPool(w) ==
  { [b \in Batch |-> [j \in 1..w |-> (s + b + j) % vocab_size]] : s \in 0..(vocab_size - 1) }
LengthPool(w) ==
  { [b \in Batch |-> <<IF b = 1 THEN n ELSE m>>] : n \in 1..w, m \in 1..w }
KeepMasks(train) ==
  IF train THEN { [b \in Batch |-> 1], [b \in Batch |-> b % 2] }
  ELSE { [b \in Batch |-> 1] }
None == <<>>
KeySizes == {1, 4}
QueryPool == { [n \in 1..NumQueries |-> ((s + n) % 3) - 1] : s \in 0..2 }
KeyPool == { [m \in 1..NumKeys |-> (s + m) % 3] : s \in 0..2 }
ValuePool == { [m \in 1..NumKeys |-> (s + m) % 2] : s \in 0..1 }
MaskedSets == {{}, 1..NumKeys} \cup { {m} : m \in 1..NumKeys }
MaskPool ==
  {None} \cup { [n \in 1..NumQueries |-> [m \in 1..NumKeys |-> m \in S]] : S \in MaskedSets }
WeightPool ==
  {None} \cup { [n \in 1..NumQueries |-> [m \in 1..NumKeys |-> (n + m + s) % 3]] : s \in 0..2 }

MemSlots == {1, 4}
UninitPool == { <<<<<<0, 1>>>>>>, <<<<<<1, 1>>>>>> }
LayerKeyCounts == {1, NumKeys}
LayerQueryCounts == {1, NumQueries + 1}
LayerQueries(nq) == { [n \in 1..nq |-> 1 - ((n + 1) % 3)] }
LayerKeys(nk) == { [m \in 1..nk |-> (s + m) % 3] : s \in 0..1 }
LayerValues(nk) == { [m \in 1..nk |-> m % 2] }
LayerMasks(nq, nk) ==
  {None} \cup { [n \in 1..nq |-> [m \in 1..nk |-> m \in S]] : S \in {{1}, {nk}, 1..nk} }
LayerWeights(nq, nk) ==
  { None, [n \in 1..nq |-> [m \in 1..nk |-> (n + m) % 3]] }
UnifSeeds == 0..1
\* unif = torch.rand_like(logprobs): one draw per position, from the seed
UnifOf(seed, att) ==
  [n \in 1..Len(att) |-> [m \in 1..Len(att[n]) |-> (seed + n + m) % 2]]

Calls == {1, 2}
ConcCaptions == { [b \in Batch |-> [j \in 1..max_cap_size |-> (b + j) % vocab_size]] }
ConcLengths == { [b \in Batch |-> <<1>>], [b \in Batch |-> <<max_cap_size>>] }
\* the rate stays 1 in the interleaving specification, where every draw of
\* np.random.uniform(0, 1) selects teacher forcing: one draw stands for all
ConcDraws == {0}

StopModes == {"min", "max"}
StopDeltas == {0, 1}
StopPatiences == {1, 2}
Metrics == (-MaxMetric)..MaxMetric
KeyOrders ==
  { o \in [1..NumImages -> Images] : \A a, b \in 1..NumImages : o[a] = o[b] => a = b }
PoolSizes == {1, 2}
PredictedPool == { <<1, 2, 0>>, <<1, 3, 0>> }
ReferencePool == { <<<<1, 2, 0>>>>, <<<<1, 3, 0>>, <<1, 2, 2>>>> }
\* ------------------------------------------------------------ actions
DecIdle ==
  /\ pc = "idle" /\ training = TRUE /\ ss = FALSE
  /\ x = None /\ captions = None /\ lengths = None
  /\ i = 0 /\ h = None /\ c = None /\ prev_words = None
  /\ predictions = None /\ alphas = None /\ trace = <<>> /\ exit = "none"

\* SATDecoder.__init__, line 127: self._teacher_forcing_rate = 1
DecInit ==
  /\ rate = RateDen
  /\ DecIdle

\* update_scheduled_sampling_rate(convergence_rate), called between forward calls
UpdateRate(r) ==
  /\ pc = "idle"
  /\ rate' = update_scheduled_sampling_rate(rate, r)
  /\ UNCHANGED <<pc, training, ss, x, captions, lengths, i, h, c,
                 prev_words, predictions, alphas, trace, exit>>
  /\ UNCHANGED notDecVars

\* forward, lines 202-226: everything before the loop
ForwardBegin(xs, caps, lens, sched, train) ==
  /\ pc = "idle"
  /\ pc' = "loop"
  /\ training' = train
  /\ ss' = sched
  /\ x' = xs
  /\ captions' = caps
  /\ lengths' = lens
  /\ i' = 0
  /\ h' = InitHidden(xs).h
  /\ c' = InitHidden(xs).c
  /\ predictions' = NewPredictions
  /\ prev_words' = Zeros(BatchSize)
  /\ alphas' = NewAlphas(xs)
  /\ trace' = <<>>
  /\ exit' = "none"
  /\ UNCHANGED rate
  /\ UNCHANGED notDecVars

\* `zhat, alpha = self.attention(x, h)` for every batch item
StepAttention == [b \in Batch |-> SATAttention(x[b], h[b])]

\* `h, c = self.recurrent(torch.cat([embedded, gate * zhat], dim=1), (h, c))`
StepCell(toks, att) ==
  [b \in Batch |->
     Recurrent(Embedding(toks[b]), Gate(h[b], att[b].zhat), h[b], c[b])]

\* `scores = self.deep_output(self.dropout(h))`
StepScores(hc, keep) ==
  [b \in Batch |-> DeepOutput(Dropout(hc[b].h, keep[b], training))]

\* the assignments of one executed iteration
StepAssign(toks, tf, att, hc, scores) ==
  /\ h' = [b \in Batch |-> hc[b].h]
  /\ c' = [b \in Batch |-> hc[b].c]
  /\ predictions' = StoreStep(predictions, i, scores)
  /\ prev_words' = IF tf THEN ForcedPrevWords(scores, prev_words)
                   ELSE [b \in Batch |-> ArgMax(scores[b])]
  /\ alphas' = StoreStep(alphas, i, [b \in Batch |-> att[b].alpha])
  /\ trace' = Append(trace, [i |-> i, tf |-> tf, fed |-> toks, rate |-> rate])
  /\ i' = NextIndex(i)
  /\ UNCHANGED <<pc, exit>>

\* the body shared by both branches of one iteration, fed the tokens `toks`
StepWithCell(toks, tf, keep, att, hc) ==
  StepAssign(toks, tf, att, hc, StepScores(hc, keep))
StepWithAttention(toks, tf, keep, att) ==
  StepWithCell(toks, tf, keep, att, StepCell(toks, att))
RunStep(toks, tf, keep) == StepWithAttention(toks, tf, keep, StepAttention)

\* one iteration with teacher forcing selected and the step executed (lines 234-249)
StepForced(u, keep) ==
  /\ pc = "loop" /\ i < max_cap_size
  /\ UseTeacherForcing(ss, u, rate)
  /\ ~PastCaptions(i, lengths)
  /\ i < Len(captions[1])
  /\ RunStep([b \in Batch |-> captions[b][i + 1]], TRUE, keep)
  /\ rate' = RateKept(rate)
  /\ UNCHANGED <<training, ss, x, captions, lengths>>
  /\ UNCHANGED notDecVars

\* teacher forcing selected and `i > max(lengths[0])`: break (lines 232-233)
StepBreak(u) ==
  /\ pc = "loop" /\ i < max_cap_size
  /\ UseTeacherForcing(ss, u, rate)
  /\ PastCaptions(i, lengths)
  /\ pc' = "done"
  /\ exit' = "break"
  /\ UNCHANGED <<rate, training, ss, x, captions, lengths, i, h, c,
                 prev_words, predictions, alphas, trace>>
  /\ UNCHANGED notDecVars

\* teacher forcing selected, no break, and embedded_captions[:, i, :] is out of
\* range: IndexError raised at line 242 before anything is assigned
StepIndexError(u) ==
  /\ pc = "loop" /\ i < max_cap_size
  /\ UseTeacherForcing(ss, u, rate)
  /\ ~PastCaptions(i, lengths)
  /\ i >= Len(captions[1])
  /\ pc' = "error"
  /\ exit' = "index"
  /\ UNCHANGED <<rate, training, ss, x, captions, lengths, i, h, c,
                 prev_words, predictions, alphas, trace>>
  /\ UNCHANGED notDecVars

\* one iteration without teacher forcing (lines 250-265)
StepFree(u, keep) ==
  /\ pc = "loop" /\ i < max_cap_size
  /\ ~UseTeacherForcing(ss, u, rate)
  /\ RunStep(prev_words, FALSE, keep)
  /\ rate' = RateKept(rate)
  /\ UNCHANGED <<training, ss, x, captions, lengths>>
  /\ UNCHANGED notDecVars

\* range(self._max_cap_size) is exhausted: return predictions, alphas (line 266)
LoopEnd ==
  /\ pc = "loop" /\ i >= max_cap_size
  /\ pc' = "done"
  /\ exit' = "range"
  /\ UNCHANGED <<rate, training, ss, x, captions, lengths, i, h, c,
                 prev_words, predictions, alphas, trace>>
  /\ UNCHANGED notDecVars

\* the caller takes the result (or the exception); the call's locals are gone
ForwardEnd ==
  /\ pc \in {"done", "error"}
  /\ pc' = "idle" /\ training' = TRUE /\ ss' = FALSE
  /\ x' = None /\ captions' = None /\ lengths' = None
  /\ i' = 0 /\ h' = None /\ c' = None /\ prev_words' = None
  /\ predictions' = None /\ alphas' = None /\ trace' = <<>> /\ exit' = "none"
  /\ UNCHANGED rate
  /\ UNCHANGED notDecVars

DecNext ==
  \/ \E r \in ConvRates : UpdateRate(r)
  \/ \E xs \in XPool, train \in BOOLEAN :
       \/ \E caps \in {None} \cup UNION { CaptionPool(w) : w \in CapWidths } :
            ForwardBegin(xs, caps, None, FALSE, train)
       \/ \E w \in CapWidths :
            \E caps \in CaptionPool(w), lens \in LengthPool(w) :
              ForwardBegin(xs, caps, lens, TRUE, train)
  \/ \E u \in Draws, keep \in KeepMasks(training) : StepForced(u, keep)
  \/ \E u \in Draws : StepBreak(u)
  \/ \E u \in Draws : StepIndexError(u)
  \/ \E u \in Draws, keep \in KeepMasks(training) : StepFree(u, keep)
  \/ LoopEnd
  \/ ForwardEnd

\* ------------------------------------------------------------ Attention actions
AttIdle ==
  /\ a_pc = "idle"
  /\ a_queries = None /\ a_keys = None /\ a_values = None
  /\ a_mask = None /\ a_weights = None
  /\ a_raw = None /\ a_weighted = None /\ a_scores = None
  /\ a_soft = None /\ a_out = None

\* Attention.__init__ with key_size dk
AttInit(dk) ==
  /\ key_size = dk
  /\ AttIdle

\* Attention.forward, lines 172-188
AttnForward(qs, ks, vs, mask, weights) ==
  /\ a_pc = "idle"
  /\ a_queries' = qs /\ a_keys' = ks /\ a_values' = vs
  /\ a_mask' = mask /\ a_weights' = weights
  /\ LET p == PreprocessInputs(qs, ks, vs, key_size)
         raw == RawScores(p.queries, p.keys, key_size)
         weighted == ApplyWeights(raw, mask, weights)
         scores == MaskedFill(weighted, mask)
         soft == [n \in 1..Len(scores) |-> Softmax(scores[n])]
     IN /\ a_raw' = raw
        /\ IF WeightsRaise(mask, weights)
           THEN /\ a_pc' = "raised"
                /\ a_weighted' = None /\ a_scores' = None
                /\ a_soft' = None /\ a_out' = None
           ELSE /\ a_pc' = "returned"
                /\ a_weighted' = weighted
                /\ a_scores' = scores
                /\ a_soft' = soft
                /\ a_out' = AttnOutput(soft, p.values)
  /\ UNCHANGED key_size
  /\ UNCHANGED notAttVars

\* the caller takes the output (or the exception)
AttnEnd ==
  /\ a_pc \in {"returned", "raised"}
  /\ a_pc' = "idle"
  /\ a_queries' = None /\ a_keys' = None /\ a_values' = None
  /\ a_mask' = None /\ a_weights' = None
  /\ a_raw' = None /\ a_weighted' = None /\ a_scores' = None
  /\ a_soft' = None /\ a_out' = None
  /\ UNCHANGED key_size
  /\ UNCHANGED notAttVars

AttNext ==
  \/ \E qs \in QueryPool, ks \in KeyPool, vs \in ValuePool,
        mask \in MaskPool, weights \in WeightPool :
       AttnForward(qs, ks, vs, mask, weights)
  \/ AttnEnd

\* ------------------------------------------------------------ AttentionLayer actions
\* the variables a forward call of the layer leaves as its locals
LayIdle ==
  /\ l_training = TRUE
  /\ a_prior = None /\ a_unif = None /\ a_first = None

\* AttentionLayer.__init__ (lines 475-492) with the attention it builds:
\* BayesianAttention.__init__ sets kl = 0 (line 304) and leaves alpha_gamma an
\* uninitialised one-element tensor (line 312), here the value ag
LayInit(b, M, ag) ==
  /\ bayesian = b
  /\ num_mem_slots = M
  /\ att_kl = IF b THEN KlZero ELSE KlUnset
  /\ layer_kl = KlUnset
  /\ alpha_gamma = IF b THEN ag ELSE None
  /\ LayIdle

\* what one call of self.attention(...) leaves behind
Outcome(pcv, raw, weighted, scores, soft, out, kl, alpha, prior, unif) ==
  [pc |-> pcv, raw |-> raw, weighted |-> weighted, scores |-> scores,
   soft |-> soft, out |-> out, kl |-> kl, alpha |-> alpha,
   prior |-> prior, unif |-> unif]

\* `output = torch.matmul(attention, values)` and the output projection
FwdMatmul(p, raw, weighted, scores, soft, kl, alpha, prior, unif) ==
  IF MatmulRaises(soft, p.values)
  THEN Outcome("raised", raw, weighted, scores, soft, None, kl, alpha, prior, unif)
  ELSE Outcome("returned", raw, weighted, scores, soft, AttnOutput(soft, p.values),
               kl, alpha, prior, unif)

\* stochastic_attention (lines 327-347): sample, then self.kl = kl.mean(); the
\* product alpha_gamma * logprobs of line 339 raises when the key axes differ,
\* after compute_prior has assigned alpha_gamma and before kl is assigned
FwdKl(p, raw, weighted, scores, prior, alpha, logprobs, unif) ==
  IF KlRaises(PriorRead(alpha_gamma, alpha), logprobs)
  THEN Outcome("raised", raw, weighted, scores, None, None, att_kl, alpha, prior, unif)
  ELSE FwdMatmul(p, raw, weighted, scores, StochasticAttention(logprobs, unif),
                 KlValue(PriorRead(alpha_gamma, alpha), logprobs), alpha, prior, unif)

\* compute_prior after the masking: prior_att_weights and alpha_gamma
\* (beta_gamma = 1), then stochastic_attention
FwdSample(p, raw, weighted, scores, prior, seed) ==
  FwdKl(p, raw, weighted, scores, prior, SoftmaxRows(prior), LogProbs(scores),
        UnifOf(seed, scores))

\* `self.compute_prior(...)`, `attention = self.stochastic_attention(...)`
FwdStochastic(p, raw, weighted, scores, nk, mask, seed, dg) ==
  IF PriorRaises(dg, mask, num_mem_slots)
  THEN Outcome("raised", raw, weighted, scores, None, None, att_kl, alpha_gamma,
               None, None)
  ELSE FwdSample(p, raw, weighted, scores,
                 ComputePrior(dg, nk, mask, num_mem_slots), seed)

\* `if self.training: ... else: attention = torch.softmax(attention, dim=-1)`
FwdBranch(p, raw, weighted, scores, nk, mask, train, seed) ==
  IF Stochastic(bayesian, train)
  THEN FwdStochastic(p, raw, weighted, scores, nk, mask, seed, DotGamma(p.keys))
  ELSE FwdMatmul(p, raw, weighted, scores, SoftmaxRows(scores), att_kl,
                 alpha_gamma, None, None)

\* `attention = self.process_masks_and_weights(...)`
FwdProcess(p, raw, nk, mask, weights, train, seed) ==
  IF ProcessRaises(raw, mask, weights, key_size, num_mem_slots)
  THEN Outcome("raised", raw, None, None, None, None, att_kl, alpha_gamma, None, None)
  ELSE FwdBranch(p, raw,
                 IF num_mem_slots = NoSlots THEN ApplyWeights(raw, mask, weights)
                 ELSE MemApplyWeights(raw, weights, key_size),
                 ProcessMasksAndWeights(raw, nk, mask, weights, key_size, num_mem_slots),
                 nk, mask, train, seed)

\* `attention = torch.matmul(queries, keys) / self.scale`
FwdScores(p, nk, mask, weights, train, seed) ==
  FwdProcess(p, RawScores(p.queries, p.keys, key_size), nk, mask, weights, train, seed)

\* the forward of the wrapped attention class
FwdOutcome(qs, ks, vs, mask, weights, train, seed) ==
  FwdScores(Preprocess(qs, ks, vs, key_size, num_mem_slots), Len(ks), mask, weights,
            train, seed)

\* the assignments of AttentionLayer.forward; the tensor it returns
\* (dropout, residual, LayerNorm of the attention output) is a local of the caller
LayerAssign(r) ==
  /\ a_pc' = r.pc
  /\ a_raw' = r.raw /\ a_weighted' = r.weighted /\ a_scores' = r.scores
  /\ a_soft' = r.soft /\ a_out' = r.out
  /\ att_kl' = r.kl
  /\ alpha_gamma' = r.alpha
  /\ a_prior' = r.prior /\ a_unif' = r.unif
  /\ layer_kl' = IF r.pc = "returned" THEN LayerKl(bayesian, layer_kl, r.kl)
                 ELSE layer_kl

\* AttentionLayer.forward (lines 514-519) on the given inputs
LayerCall(qs, ks, vs, mask, weights, train, seed, first) ==
  /\ a_queries' = qs /\ a_keys' = ks /\ a_values' = vs
  /\ a_mask' = mask /\ a_weights' = weights
  /\ l_training' = train
  /\ a_first' = first
  /\ LayerAssign(FwdOutcome(qs, ks, vs, mask, weights, train, seed))
  /\ UNCHANGED <<key_size, bayesian, num_mem_slots>>
  /\ UNCHANGED notLayVars

\* a forward call of the layer
LayerForward(qs, ks, vs, mask, weights, train, seed) ==
  /\ a_pc = "idle"
  /\ LayerCall(qs, ks, vs, mask, weights, train, seed, None)

\* the caller keeps the output and calls forward again with identical inputs
LayerRepeat(seed) ==
  /\ a_pc = "returned" /\ a_first = None
  /\ LayerCall(a_queries, a_keys, a_values, a_mask, a_weights, l_training, seed,
               <<a_out>>)

\* the caller takes the output (or the exception)
LayerEnd ==
  /\ a_pc \in {"returned", "raised"}
  /\ a_pc' = "idle"
  /\ a_queries' = None /\ a_keys' = None /\ a_values' = None
  /\ a_mask' = None /\ a_weights' = None
  /\ a_raw' = None /\ a_weighted' = None /\ a_scores' = None
  /\ a_soft' = None /\ a_out' = None
  /\ l_training' = TRUE
  /\ a_prior' = None /\ a_unif' = None /\ a_first' = None
  /\ UNCHANGED <<key_size, bayesian, num_mem_slots, att_kl, layer_kl, alpha_gamma>>
  /\ UNCHANGED notLayVars

LayerNext ==
  \/ \E nq \in LayerQueryCounts, nk \in LayerKeyCounts :
       \E qs \in LayerQueries(nq), ks \in LayerKeys(nk), vs \in LayerValues(nk),
          mask \in LayerMasks(nq, nk), weights \in LayerWeights(nq, nk),
          train \in BOOLEAN, seed \in UnifSeeds :
         LayerForward(qs, ks, vs, mask, weights, train, seed)
  \/ \E seed \in UnifSeeds : LayerRepeat(seed)
  \/ LayerEnd

\* ------------------------------------------------------------ interleaved forward calls
ConcIdle == calls = [k \in Calls |-> IdleCall] /\ interleaved = FALSE

\* invocation k enters forward; the module's training flag is one attribute, so
\* a call that starts while another runs sees the same mode
ConcBegin(k, xs, caps, lens, sched, train) ==
  /\ calls[k].pc = "idle"
  /\ \A j \in Calls : calls[j].pc # "idle" => calls[j].training = train
  /\ calls' = [calls EXCEPT ![k] = BeginCall(xs, caps, lens, sched, train)]
  /\ UNCHANGED interleaved
  /\ UNCHANGED notConVars

\* invocation k runs one pass of its loop
ConcStep(k, u, keep) ==
  /\ calls[k].pc = "loop"
  /\ calls' = [calls EXCEPT ![k] = StepOf(OwnLocals(calls, k), rate, u, keep)]
  /\ interleaved' = (interleaved \/ \E j \in Calls \ {k} :
                                      calls[j].pc = "loop" /\ calls[j].i > 0)
  /\ UNCHANGED notConVars

\* the caller of invocation k takes the result (or the exception)
ConcEnd(k) ==
  /\ calls[k].pc \in {"done", "error"}
  /\ calls' = [calls EXCEPT ![k] = IdleCall]
  /\ interleaved' = (interleaved /\ \E j \in Calls \ {k} : calls[j].pc # "idle")
  /\ UNCHANGED notConVars

ConcNext ==
  \/ \E k \in Calls, xs \in XPool :
       \/ \E train \in BOOLEAN : ConcBegin(k, xs, None, None, FALSE, train)
       \/ \E caps \in ConcCaptions, lens \in ConcLengths :
            ConcBegin(k, xs, caps, lens, TRUE, FALSE)
  \/ \E k \in Calls, u \in ConcDraws :
       \E keep \in KeepMasks(calls[k].training) : ConcStep(k, u, keep)
  \/ \E k \in Calls : ConcEnd(k)

\* ------------------------------------------------------------ BayesianSATDecoder actions
StubIdle == bs_calls = <<>>

\* BayesianSATDecoder()
StubConstruct ==
  /\ Len(bs_calls) < MaxStubCalls
  /\ bs_calls' = Append(bs_calls, [op |-> "init", x |-> None] @@ BayesianSATDecoderInit)
  /\ UNCHANGED notStubVars

\* BayesianSATDecoder.forward(obj, x)
StubForward(xs) ==
  /\ Len(bs_calls) < MaxStubCalls
  /\ bs_calls' = Append(bs_calls,
                        [op |-> "forward", x |-> xs] @@ BayesianSATDecoderForward(xs))
  /\ UNCHANGED notStubVars

StubNext ==
  \/ StubConstruct
  \/ \E xs \in XPool : StubForward(xs)

\* ------------------------------------------------------------ Flickr30KFeatures actions
\* Flickr30KFeatures.__init__ (lines 118-123) on an archive whose keys were
\* merged in ascending order
DsInit(lazy_cache, mode) ==
  dataset = [cache_mode |-> lazy_cache, feature_mode |-> mode,
             cached |-> [img \in Images |-> <<>>],
        ann_list |-> AnnListOf([n \in 1..NumImages |-> n]),
        pc |-> "idle", index |-> 0, got |-> <<>>]

\* the result and the cache of a __getitem__ call
DsAssign(index, r) ==
  dataset' = [dataset EXCEPT !.pc = "returned", !.index = index, !.got = r.ret,
                   !.cached = r.cached]

\* dataset[index]
DsGetItem(index) ==
  /\ dataset.pc = "idle"
  /\ DsAssign(index, GetItem(dataset.cache_mode, dataset.feature_mode,
                              dataset.cached, dataset.ann_list, index))
  /\ UNCHANGED notDataVars

\* the caller takes the triple
DsEnd ==
  /\ dataset.pc = "returned"
  /\ dataset' = [dataset EXCEPT !.pc = "idle", !.index = 0, !.got = <<>>]
  /\ UNCHANGED notDataVars

DsNext ==
  \/ \E index \in 0..(NumImages * CapsPerImage - 1) : DsGetItem(index)
  \/ DsEnd

\* ------------------------------------------------------------ EarlyStopping actions
\* EarlyStopping(checkpoint_path, delta, mode, patience)
StopInit(mode, delta, patience) == stopper = EarlyStoppingNew(mode, delta, patience)

\* stopper(metric, state): the training loop passes the state of the epoch
StopCall(arg) ==
  /\ stopper.calls < MaxStopCalls
  /\ stopper' = EarlyStoppingCall(stopper, arg, stopper.calls + 1)
  /\ UNCHANGED notStopVars

StopNext == \E arg \in Metrics : StopCall(arg)

\* ------------------------------------------------------------ NLPMetricAggregator actions
\* Flickr30KMetricsCallback.__init__ (lines 119-120): a new aggregator, reset
TrackInit ==
  tracker = [agg |-> AggregatorReset(AggregatorNew), since |-> <<>>,
             was_reset |-> FALSE, updates |-> 0, logged |-> <<>>]

\* on_validation_batch_end, line 131: self.tracker.update(pred, ref_caps)
TrackUpdate(predicted, reference) ==
  /\ tracker.updates < MaxUpdates
  /\ tracker' = [tracker EXCEPT
                   !.agg = AggregatorUpdate(tracker.agg, predicted, reference),
                   !.since = Append(tracker.since, <<predicted, reference>>),
                   !.updates = tracker.updates + 1]
  /\ UNCHANGED notTrackVars

\* on_validation_epoch_end (lines 134-137): the summaries, then reset()
TrackEpochEnd ==
  /\ tracker' = [tracker EXCEPT
                   !.agg = AggregatorReset(tracker.agg),
                   !.logged = <<GenerateMetricSummaries(tracker.agg)>>,
                   !.since = <<>>,
                   !.was_reset = TRUE]
  /\ UNCHANGED notTrackVars

TrackNext ==
  \/ \E predicted \in PredictedPool, reference \in ReferencePool :
       TrackUpdate(predicted, reference)
  \/ TrackEpochEnd

\* ------------------------------------------------------------ Flickr30k constructor actions
\* Flickr30k.__init__ up to line 69: data_keys in the order `order` of
\* list(set(...)), the selection, and the jobs submitted to the pool
PoolInit(order, smoke_test, fast_test, num_processes) ==
  pool = PoolNew(Select(order, smoke_test, fast_test), num_processes)

\* a free worker takes the next task from the pool's queue
PoolStart ==
  /\ pool.pc = "loop"
  /\ Cardinality({ j \in 1..Len(pool.jobs) : pool.jobs[j] = "running" })
       < pool.num_processes
  /\ \E j \in 1..Len(pool.jobs) :
       /\ pool.jobs[j] = "queued"
       /\ \A k \in 1..(j - 1) : pool.jobs[k] # "queued"
       /\ pool' = [pool EXCEPT !.jobs[j] = "running"]
  /\ UNCHANGED notPoolVars

\* load_metadata (lines 20-28) of job j ends in a worker: it returns the two
\* dictionaries, or raises when the key has no such attribute
PoolFinish(j, ok) ==
  /\ pool.pc = "loop"
  /\ j \in 1..Len(pool.jobs)
  /\ pool.jobs[j] = "running"
  /\ pool' = [pool EXCEPT !.jobs[j] = IF ok THEN "done" ELSE "failed",
                           !.finished = Append(pool.finished, j)]
  /\ UNCHANGED notPoolVars

\* one iteration of the loop of lines 70-77: job.wait(), job.get(), the merge;
\* job.get() re-raises the exception of a failed job and the constructor ends
PoolMerge ==
  /\ pool.pc = "loop"
  /\ pool.pos <= Len(pool.keys)
  /\ JobReady(pool.jobs[pool.pos])
  /\ pool' = IF pool.jobs[pool.pos] = "failed"
              THEN [pool EXCEPT !.pc = "raised"]
              ELSE MergeJob(pool, pool.keys[pool.pos])
  /\ UNCHANGED notPoolVars

\* the loop is over: the pool is closed and line 78 sorts the ids
PoolReturn ==
  /\ pool.pc = "loop"
  /\ pool.pos > Len(pool.keys)
  /\ pool' = [pool EXCEPT !.pc = "returned",
                           !.ids = SortedSeq(DOMAIN pool.annotations)]
  /\ UNCHANGED notPoolVars

PoolNext ==
  \/ PoolStart
  \/ \E j \in 1..NumImages, ok \in BOOLEAN : PoolFinish(j, ok)
  \/ PoolMerge
  \/ PoolReturn

\* ------------------------------------------------------------ specifications
\* the decoder: one SATDecoder and its callers
OnePool == PoolInit([n \in 1..NumImages |-> n], FALSE, FALSE, 1)
UtilInit == DsInit(FALSE, "global") /\ StopInit("max", 0, 1) /\ TrackInit /\ OnePool
CoreInit == DecInit /\ AttInit(1) /\ LayInit(FALSE, NoSlots, None) /\ ConcIdle /\ StubIdle
Init == CoreInit /\ UtilInit
Next == DecNext
Spec == Init /\ [][Next]_vars

\* the attention module: one Attention of any modelled key size and its callers
AttnSpecInit ==
  /\ DecInit
  /\ \E dk \in KeySizes : AttInit(dk)
  /\ LayInit(FALSE, NoSlots, None)
  /\ ConcIdle /\ StubIdle
  /\ UtilInit
AttnSpecNext == AttNext
AttnSpec == AttnSpecInit /\ [][AttnSpecNext]_vars

\* the attention layer: one AttentionLayer of any modelled configuration
LayerSpecInit ==
  /\ DecInit
  /\ \E dk \in KeySizes : AttInit(dk)
  /\ \E b \in BOOLEAN, M \in {NoSlots} \cup MemSlots, ag \in UninitPool : LayInit(b, M, ag)
  /\ ConcIdle /\ StubIdle
  /\ UtilInit
LayerSpecNext == LayerNext
LayerSpec == LayerSpecInit /\ [][LayerSpecNext]_vars

\* two invocations of forward on one decoder, their steps interleaved
ConcSpecNext == ConcNext
ConcSpec == Init /\ [][ConcSpecNext]_vars

\* the unimplemented decoder and its callers
StubSpecNext == StubNext
StubSpec == Init /\ [][StubSpecNext]_vars

\* a Flickr30KFeatures of either cache mode and feature mode, and its readers
DataSpecInit ==
  /\ CoreInit
  /\ \E lazy_cache \in BOOLEAN, mode \in {"global", "region"} : DsInit(lazy_cache, mode)
  /\ StopInit("max", 0, 1) /\ TrackInit /\ OnePool
DataSpecNext == DsNext
DataSpec == DataSpecInit /\ [][DataSpecNext]_vars

\* an EarlyStopping of any modelled mode, delta and patience, and its caller
StopSpecInit ==
  /\ CoreInit
  /\ DsInit(FALSE, "global") /\ TrackInit /\ OnePool
  /\ \E mode \in StopModes, delta \in StopDeltas, patience \in StopPatiences :
       StopInit(mode, delta, patience)
StopSpecNext == StopNext
StopSpec == StopSpecInit /\ [][StopSpecNext]_vars

\* the metrics callback and its NLPMetricAggregator over validation epochs
TrackSpecNext == TrackNext
TrackSpec == Init /\ [][TrackSpecNext]_vars

\* the Flickr30k constructor with its worker pool, for every key order,
\* selection and modelled pool size
PoolSpecInit ==
  /\ CoreInit
  /\ DsInit(FALSE, "global") /\ StopInit("max", 0, 1) /\ TrackInit
  /\ \E order \in KeyOrders, smoke_test \in BOOLEAN, fast_test \in BOOLEAN,
        num_processes \in PoolSizes :
       PoolInit(order, smoke_test, fast_test, num_processes)
PoolSpecNext == PoolNext
PoolSpec == PoolSpecInit /\ [][PoolSpecNext]_vars

\* ------------------------------------------------------------ claims
\* shape of a rank-3 tensor
IsShape(t, n1, n2, n3) ==
  /\ Len(t) = n1
  /\ \A p \in 1..Len(t) :
       /\ Len(t[p]) = n2
       /\ \A q \in 1..Len(t[p]) : Len(t[p][q]) = n3

\* sum of a row of rationals, as <<numerator, denominator>> (not reduced)
RECURSIVE RatSum(_)
RatSum(row) ==
  IF row = <<>> THEN RatZero
  ELSE LET r == RatSum(Tail(row))
           a == Head(row)
       IN <<a[1] * r[2] + r[1] * a[2], a[2] * r[2]>>

\* the largest caption length over all items of the batch
BatchMaxLength(lens) == SeqMax([b \in Batch |-> SeqMax(lens[b])])

\* C1: the teacher-forcing rate starts at 1; every update_scheduled_sampling_rate(r)
\* sets it to max(0, old rate - r); with r >= 0 no step of the program increases
\* the rate and the rate is never below 0.
C1_RateRampClampedAtZero ==
  /\ rate = RateDen
  /\ [][ /\ \A r \in ConvRates : UpdateRate(r) => rate' = Max(0, rate - r)
         /\ rate' <= rate ]_vars
  /\ [](rate >= 0)

\* the rate has been driven down to the floor by update calls
C1_Witness == rate = 0 /\ pc = "idle"

\* C2: a step decided while the rate is 0 never takes the teacher-forcing branch,
\* whatever the draw and the captions/lengths, also with scheduled_sampling on:
\* no executed step is teacher forced and the loop neither breaks nor reads a
\* ground-truth token.
C2_NoTeacherForcingAtZeroRate ==
  /\ \A k \in 1..Len(trace) : trace[k].rate = 0 => ~trace[k].tf
  /\ (pc # "idle" /\ rate = 0) => exit \notin {"break", "index"}

\* a complete call with scheduled sampling requested at rate 0
C2_Witness ==
  /\ pc = "done" /\ ss /\ rate = 0
  /\ Len(trace) = max_cap_size

\* C3: what forward returns is a score tensor of shape (batch, max_caption_length,
\* vocabulary_size) and an attention tensor of shape (batch, max_caption_length, L),
\* for every caption length, every branch taken and also after the early exit.
C3_ReturnedShapes ==
  pc = "done" =>
    /\ IsShape(predictions, BatchSize, max_cap_size, vocab_size)
    /\ IsShape(alphas, BatchSize, max_cap_size, Len(x[1]))

\* a call that took both branches and then left the loop early
C3_Witness ==
  /\ pc = "done" /\ exit = "break"
  /\ \E k \in 1..Len(trace) : trace[k].tf
  /\ \E k \in 1..Len(trace) : ~trace[k].tf

\* C4 (as claimed): at a step where teacher forcing is selected, decoding stops
\* if and only if the step index exceeds the maximum caption length over all
\* items of the batch.
C4_StopIffPastBatchMaximum ==
  /\ exit = "break" => i > BatchMaxLength(lengths)
  /\ \A k \in 1..Len(trace) :
       trace[k].tf => ~(trace[k].i > BatchMaxLength(lengths))
  /\ exit = "index" => ~(i > BatchMaxLength(lengths))

\* C5: the token fed to the recurrent cell at a step is the ground-truth token
\* of that step when teacher forcing is selected, and otherwise the argmax of
\* the scores of the step executed just before (token 0 at step 0), whichever
\* branch that earlier step took.
C5_TokenFed ==
  pc # "idle" =>
    \A k \in 1..Len(trace) :
      trace[k].fed =
        IF trace[k].tf
        THEN [b \in Batch |-> captions[b][trace[k].i + 1]]
        ELSE IF k = 1
             THEN Zeros(BatchSize)
             ELSE [b \in Batch |-> ArgMax(predictions[b][trace[k - 1].i + 1])]

\* a free-running step right after a teacher-forced one, fed a nonzero token
C5_Witness ==
  /\ pc = "done"
  /\ \E k \in 2..Len(trace) :
       /\ trace[k - 1].tf /\ ~trace[k].tf
       /\ trace[k].fed # Zeros(BatchSize)

\* C6: with scheduled_sampling off, forward executes all max_caption_length
\* steps and every (batch, step) row of the returned attention tensor is a
\* softmax row: it sums to 1.
C6_AttentionRowsSumToOne ==
  (pc = "done" /\ ~ss) =>
    /\ Len(trace) = max_cap_size
    /\ \A b \in Batch : \A t \in 1..max_cap_size :
         /\ Len(alphas[b][t]) = Len(x[b])
         /\ RatSum(alphas[b][t])[1] = RatSum(alphas[b][t])[2]

\* a returned call without scheduled sampling
C6_Witness ==
  /\ pc = "done" /\ ~ss /\ exit = "range"
  /\ \E b \in Batch : alphas[b][max_cap_size][1] # alphas[b][max_cap_size][2]

\* C7 (as claimed): in every forward call, however its loop ends, the step loop
\* executes the indices 0, 1, 2, ... once each and in order and none at or
\* beyond max_caption_length; it ends after exactly that many steps, or after
\* fewer only through the teacher-forcing early exit; and every step that
\* stays in the loop moves the index up by one, so the loop cannot run on.
C7_LoopTerminates ==
  /\ [](pc \in {"loop", "done", "error"} =>
         /\ Len(trace) = i
         /\ i <= max_cap_size
         /\ \A k \in 1..Len(trace) : trace[k].i = k - 1)
  /\ [](pc \in {"done", "error"} =>
         \/ exit = "range" /\ Len(trace) = max_cap_size
         \/ exit = "break" /\ Len(trace) < max_cap_size /\ ss /\ rate > 0)
  /\ [][(pc = "loop" /\ pc' = "loop") => i' = i + 1]_vars

\* C8 (as claimed): the score of a query and a key is their dot product divided
\* by sqrt(Dk): score * sqrt(Dk) = dot product.
C8_ScoreIsDotOverSqrtDk ==
  a_pc = "returned" =>
    LET p == PreprocessInputs(a_queries, a_keys, a_values, key_size)
    IN \A n \in 1..Len(a_queries) : \A m \in 1..Len(a_keys) :
         a_raw[n][m] * ISqrt(key_size) = Dot(p.queries[n], p.keys[m])

\* C9 (as claimed): forward returns an output for each of the four combinations
\* of mask present/absent and weights present/absent; none of them raises.
C9_EveryCombinationReturns == a_pc # "raised"

\* C10 (as claimed): with attention_weights supplied, every raw score is
\* multiplied by the weight of its (query, key) position before normalisation.
C10_ScoresTimesWeights ==
  (a_pc = "returned" /\ a_weights # None) =>
    \A n \in 1..Len(a_queries) : \A m \in 1..Len(a_keys) :
      a_weighted[n][m] = a_raw[n][m] * a_weights[n][m]

\* the key axis of the call: input keys, then the memory slots
InputKeys == 1..Len(a_keys)

\* the deterministic softmax produced the attention weights of this call
DeterministicPath == a_soft # None /\ a_unif = None

\* the masked prior logits of this call, recomputed from its keys and mask
PriorOfCall ==
  ComputePrior(DotGamma(Preprocess(a_queries, a_keys, a_values, key_size,
                                   num_mem_slots).keys),
               Len(a_keys), a_mask, num_mem_slots)

\* a step that is a forward call of the layer outside training mode
EvalCallStep ==
  /\ ~l_training'
  /\ \/ a_pc = "idle" /\ a_pc' # "idle"
     \/ a_first = None /\ a_first' # None

\* C11: in Attention and in AttentionWithMemory (and the Bayesian classes that
\* inherit the step), when both a mask and weights are given the weighting runs
\* before the masking: every masked position holds minus infinity in the scores
\* handed to softmax, whatever the weights are.
C11_MaskedAfterWeighting ==
  (a_scores # None /\ a_mask # None /\ a_weights # None) =>
    \A n \in 1..Len(a_scores) : \A m \in InputKeys :
      a_mask[n][m] => a_scores[n][m] = NegInf

\* memory attention, a masked position whose weight is not 1
C11_Witness ==
  /\ a_scores # None /\ a_mask # None /\ a_weights # None
  /\ num_mem_slots # NoSlots
  /\ a_pc = "returned"
  /\ \E m \in InputKeys : a_mask[1][m] /\ a_weights[1][m] > 1 /\ a_raw[1][m] # 0

\* C12: on the deterministic path every masked key position has attention
\* weight 0 after softmax and the weights of the other positions sum to 1, for
\* every mask that leaves a position unmasked.
C12_MaskedWeightZero ==
  (DeterministicPath /\ a_mask # None) =>
    \A n \in 1..Len(a_soft) :
      (\E m \in 1..Len(a_soft[n]) : ~(m \in InputKeys /\ a_mask[n][m])) =>
        /\ \A m \in InputKeys : a_mask[n][m] => a_soft[n][m][1] = 0
        /\ a_soft[n][1][2] > 0
        /\ SeqSum([m \in 1..Len(a_soft[n]) |->
                     IF m \in InputKeys /\ a_mask[n][m] THEN 0 ELSE a_soft[n][m][1]])
             = a_soft[n][1][2]

\* plain Attention in eval mode, one of two keys masked, the masked key having
\* the larger score
C12_Witness ==
  /\ DeterministicPath /\ a_pc = "returned" /\ a_mask # None
  /\ num_mem_slots = NoSlots
  /\ Len(a_keys) > 1
  /\ a_mask[1][1] /\ ~a_mask[1][Len(a_keys)]
  /\ a_raw[1][1] > a_raw[1][Len(a_keys)]
  /\ a_soft[1][Len(a_keys)][1] > 0

\* C13: in the memory classes the masking leaves the scores of the memory-slot
\* positions as the weighting step produced them, and in training mode the prior
\* logits of the slots as the prior layers produced them; only masked positions
\* among the first Nk can become minus infinity.
C13_SlotsNeverMasked ==
  (num_mem_slots # NoSlots /\ a_mask # None) =>
    /\ a_scores # None =>
         \A n \in 1..Len(a_scores) : \A m \in 1..Len(a_scores[n]) :
           \/ a_scores[n][m] = a_weighted[n][m]
           \/ m \in InputKeys /\ a_mask[n][m] /\ a_scores[n][m] = NegInf
    /\ a_prior # None =>
         LET dg == DotGamma(Preprocess(a_queries, a_keys, a_values, key_size,
                                       num_mem_slots).keys)
         IN \A n \in 1..Len(a_prior) : \A m \in 1..Len(a_prior[n]) :
              \/ a_prior[n][m] = dg[n][m]
              \/ m \in InputKeys /\ a_mask[n][m] /\ a_prior[n][m] = NegInf

\* a training call of BayesianAttentionWithMemory with every input key masked
C13_Witness ==
  /\ num_mem_slots # NoSlots /\ bayesian /\ l_training
  /\ a_pc = "returned" /\ a_prior # None
  /\ a_mask # None /\ \A m \in InputKeys : a_mask[1][m]
  /\ \A m \in InputKeys : a_scores[1][m] = NegInf /\ a_prior[1][m] = NegInf
  /\ Len(a_scores[1]) = Len(a_keys) + num_mem_slots

\* C14: with M memory slots every forward call scores over a key/value axis of
\* length Nk + M, no call changes M, and a returned call normalises over that
\* axis and returns one output row per query, as without memory.
C14_ExtendedKeyAxis ==
  /\ [](a_raw # None =>
          /\ \A n \in 1..Len(a_raw) : Len(a_raw[n]) = Len(a_keys) + num_mem_slots
          /\ Len(a_raw) = Len(a_queries)
          /\ Len(Preprocess(a_queries, a_keys, a_values, key_size,
                            num_mem_slots).values) = Len(a_keys) + num_mem_slots)
  /\ [](a_pc = "returned" =>
          /\ \A n \in 1..Len(a_soft) : Len(a_soft[n]) = Len(a_keys) + num_mem_slots
          /\ Len(a_out) = Len(a_queries))
  /\ [][num_mem_slots' = num_mem_slots]_vars

\* a returned call of a layer with four slots and more than one input key
C14_Witness ==
  /\ a_pc = "returned" /\ num_mem_slots = 4 /\ Len(a_keys) > 1
  /\ Len(a_raw[1]) = Len(a_keys) + 4

\* C15: outside training mode a forward call of a Bayesian class draws no random
\* numbers and computes no prior, leaves alpha_gamma and kl as they were, and
\* returns the same output when called again with identical inputs.
C15_InferenceDeterministic ==
  /\ []((bayesian /\ ~l_training /\ a_pc # "idle") =>
          /\ a_unif = None /\ a_prior = None
          /\ (a_pc = "returned" /\ a_first # None) => a_out = a_first[1])
  /\ [][(bayesian /\ EvalCallStep) =>
          /\ att_kl' = att_kl
          /\ alpha_gamma' = alpha_gamma]_vars

\* the second of two identical eval-mode calls of a Bayesian layer that has
\* been trained before
C15_Witness ==
  /\ bayesian /\ ~l_training /\ a_pc = "returned" /\ a_first # None
  /\ att_kl.tag = "kl"
  /\ a_out = a_first[1]

\* C16 (as claimed): after every forward call of a layer built with
\* bayesian=True the layer's kl equals the wrapped attention's kl and that value
\* is the KL computed by this same forward call; a layer built with
\* bayesian=False never sets a kl.
C16_KlOfThisCall ==
  /\ (bayesian /\ a_pc = "returned") =>
       /\ layer_kl = att_kl
       /\ att_kl.tag = "kl"
       /\ att_kl.logprobs = LogProbs(a_scores)
  /\ ~bayesian => layer_kl = KlUnset

\* C16 (amended): after every forward call of a bayesian layer that returns,
\* the layer's kl equals the wrapped attention's kl; after a training-mode call
\* that value is the KL computed by this call, and a call outside training mode
\* leaves the attention's kl as it was before the call (the constructor's 0 or
\* the KL of the last training-mode call); a layer built with bayesian=False
\* never sets a kl.
C16_KlExposedUnchanged ==
  /\ []((bayesian /\ a_pc = "returned") =>
          /\ layer_kl = att_kl
          /\ l_training =>
               att_kl = KlValue(SoftmaxRows(a_prior), LogProbs(a_scores)))
  /\ [](~bayesian => layer_kl = KlUnset /\ att_kl = KlUnset)
  /\ [][(bayesian /\ EvalCallStep) => att_kl' = att_kl]_vars

\* an eval-mode call that exposes the KL of an earlier training-mode call
C16_Witness ==
  /\ bayesian /\ ~l_training /\ a_pc = "returned"
  /\ layer_kl = att_kl /\ att_kl.tag = "kl"
  /\ att_kl.logprobs # LogProbs(a_scores)

\* what an invocation hands back, with the locals it ends on
Returned(loc) == <<loc.predictions, loc.alphas, loc.h, loc.c, loc.prev_words, loc.i>>

\* forward run alone on the inputs of `loc`, taking the draws `ds` in order
RECURSIVE Replay(_, _, _)
Replay(loc, r, ds) ==
  IF ds = <<>> THEN loc
  ELSE Replay(StepOf(loc, r, Head(ds).u, Head(ds).keep), r, Tail(ds))
RunAlone(loc, r) ==
  Replay(BeginCall(loc.x, loc.captions, loc.lengths, loc.ss, loc.training), r, loc.draws)

\* C17: when the steps of two forward invocations on one decoder interleave, a
\* step of one leaves every local of the other (hidden/memory vectors, previous
\* tokens, prediction and attention tensors) as it was, and each invocation
\* ends with what it computes when run alone on its inputs with the same draws.
C17_InvocationsIsolated ==
  /\ [](\A k \in Calls :
          calls[k].pc = "done" => Returned(calls[k]) = Returned(RunAlone(calls[k], rate)))
  /\ [][\A k \in Calls :
          calls'[k] # calls[k] => \A j \in Calls \ {k} : calls'[j] = calls[j]]_vars

\* both invocations ran all their steps on different inputs, interleaved
C17_Witness ==
  /\ interleaved
  /\ \A k \in Calls : calls[k].pc = "done" /\ calls[k].i = max_cap_size
  /\ calls[1].x # calls[2].x
  /\ calls[1].h # calls[2].h
  /\ calls[1].ss /\ ~calls[2].ss

\* C18: only update_scheduled_sampling_rate changes the teacher-forcing rate:
\* every step that changes it is an update call, and every step of a forward
\* call, whichever branch it took, saw the rate the decoder still has.
C18_RateChangedOnlyByUpdate ==
  /\ [][rate' # rate => \E r \in ConvRates : UpdateRate(r)]_vars
  /\ [](\A k \in 1..Len(trace) : trace[k].rate = rate)

\* a call that took both branches at a rate strictly between 0 and 1
C18_Witness ==
  /\ pc = "done" /\ ss /\ rate > 0 /\ rate < RateDen
  /\ \E k \in 1..Len(trace) : trace[k].tf
  /\ \E k \in 1..Len(trace) : ~trace[k].tf

\* C19: constructing BayesianSATDecoder always raises NotImplementedError and
\* hands no instance to the caller, and its forward always raises
\* NotImplementedError.
C19_StubAlwaysRaises ==
  \A k \in 1..Len(bs_calls) :
    /\ bs_calls[k].raised = "NotImplementedError"
    /\ ~bs_calls[k].instance

\* a construction and a forward call have both been attempted
C19_Witness ==
  /\ \E k \in 1..Len(bs_calls) : bs_calls[k].op = "init"
  /\ \E k \in 1..Len(bs_calls) : bs_calls[k].op = "forward"

\* C20: in training mode every forward call of a Bayesian class that reaches
\* stochastic_attention has recomputed the contextual prior from the keys and
\* the mask of this call before it draws the sample, the KL that
\* stochastic_attention stores is computed from that prior, and every returned
\* training-mode call has done both.
C20_KlFromFreshPrior ==
  /\ (bayesian /\ a_unif # None) =>
       /\ l_training
       /\ a_prior = PriorOfCall
       /\ alpha_gamma = SoftmaxRows(PriorOfCall)
  /\ (bayesian /\ a_unif # None /\ a_soft # None) =>
       att_kl = KlValue(SoftmaxRows(PriorOfCall), LogProbs(a_scores))
  /\ (bayesian /\ l_training /\ a_pc = "returned") =>
       a_unif # None /\ a_soft # None

\* a returned training-mode call with a masked prior, made after an earlier
\* training-mode call had left its own prior and KL behind
C20_Witness ==
  /\ bayesian /\ l_training /\ a_pc = "returned" /\ a_unif # None
  /\ a_mask # None /\ a_prior[1][1] = NegInf
  /\ a_first # None
  /\ att_kl.alpha = SoftmaxRows(a_prior)

\* C21 (as claimed): with caption lengths all at most the caption width W, every
\* teacher-forced step reads the ground-truth token at a step index i < W, also
\* when max_caption_length exceeds W: no call ends in an IndexError.
C21_CaptionReadsInRange ==
  (pc # "idle" /\ ss /\ \A b \in Batch : lengths[b][1] <= Len(captions[1])) =>
    /\ exit # "index"
    /\ \A k \in 1..Len(trace) : trace[k].tf => trace[k].i < Len(captions[1])

\* C22: during and after a forward call the rows of the score tensor and of the
\* attention tensor for the steps not yet executed are all zero, so an early
\* exit at step i leaves rows i..T-1 zero; an executed step writes its scores
\* and its attention weights into row i and changes no other row, and the exit
\* itself changes no row.
C22_UnwrittenRowsStayZero ==
  /\ [](pc \in {"loop", "done", "error"} =>
         \A b \in Batch : \A t \in (i + 1)..max_cap_size :
           /\ predictions[b][t] = Zeros(vocab_size)
           /\ alphas[b][t] = RatZeros(Len(x[b])))
  /\ [][(pc = "loop" /\ pc' = "loop") =>
          /\ \A b \in Batch : \A t \in 1..max_cap_size :
               t # i + 1 => /\ predictions'[b][t] = predictions[b][t]
                            /\ alphas'[b][t] = alphas[b][t]
          /\ \E keep \in KeepMasks(training) : \A b \in Batch :
               predictions'[b][i + 1] = DeepOutput(Dropout(h'[b], keep[b], training))
          /\ \A b \in Batch : alphas'[b][i + 1] = SATAttention(x[b], h[b]).alpha]_vars
  /\ [][(pc = "loop" /\ pc' \in {"done", "error"}) =>
          predictions' = predictions /\ alphas' = alphas]_vars

\* an early exit after at least one executed step that wrote a nonzero score
\* row, with at least one row left unwritten
C22_Witness ==
  /\ pc = "done" /\ exit = "break"
  /\ i >= 1 /\ i < max_cap_size
  /\ \E b \in Batch : predictions[b][1] # Zeros(vocab_size)
  /\ \A b \in Batch : predictions[b][max_cap_size] = Zeros(vocab_size)

\* C23 (as claimed): in AttentionWithMemory supplied attention_weights scale
\* exactly the first Nk (input-key) score positions and leave the M memory-slot
\* positions unchanged, for every Nk and every key size.
C23_WeightsScaleInputKeys ==
  (num_mem_slots # NoSlots /\ a_weights # None /\ a_pc # "idle") =>
    a_weighted =
      [n \in 1..Len(a_queries) |-> [m \in 1..(Len(a_keys) + num_mem_slots) |->
         IF m \in InputKeys THEN a_raw[n][m] * a_weights[n][m] ELSE a_raw[n][m]]]

\* C24 (as claimed): with lazy_cache=True, __getitem__(index) returns for every
\* index and after any earlier accesses the triple it returns with
\* lazy_cache=False; two indices of one image each return their own caption.
C24_LazyCacheSameAsEager ==
  dataset.pc = "returned" =>
    dataset.got = GetItem(FALSE, dataset.feature_mode, dataset.cached,
                          dataset.ann_list, dataset.index).ret

\* the metric of a call improves on the best metric by more than delta
Improves(mode, best, delta, metric) ==
  IF mode = "min" THEN metric < AddDelta(best, -delta)
  ELSE metric > AddDelta(best, delta)

\* C25 (as claimed): a call whose metric improves on the best metric by more
\* than delta resets the counter to 0 and records the metric as the new best;
\* any other call increments the counter; stop becomes true exactly when the
\* counter reaches patience, and once true it never becomes false again.
C25_EarlyStoppingCounts ==
  [][stopper'.calls = stopper.calls + 1 =>
       /\ Improves(stopper.mode, stopper.best_metric, stopper.delta, stopper'.metric) =>
            /\ stopper'.counter = 0
            /\ stopper'.best_metric = stopper'.metric
       /\ ~Improves(stopper.mode, stopper.best_metric, stopper.delta, stopper'.metric) =>
            /\ stopper'.counter = stopper.counter + 1
            /\ stopper'.best_metric = stopper.best_metric
       /\ stopper'.stop = (stopper.stop \/ stopper'.counter = stopper.patience)]_vars

\* the aggregator a new NLPMetricAggregator becomes after the updates `us`
RECURSIVE FreshAfter(_, _)
FreshAfter(a, us) ==
  IF us = <<>> THEN a
  ELSE FreshAfter(AggregatorUpdate(a, Head(us)[1], Head(us)[2]), Tail(us))

\* C26 (as claimed): after reset(), every metric returned by
\* generate_metric_summaries equals what a freshly constructed aggregator
\* returns after the updates made since that reset.
C26_SummariesSinceReset ==
  tracker.was_reset =>
    GenerateMetricSummaries(tracker.agg) =
      GenerateMetricSummaries(FreshAfter(AggregatorNew, tracker.since))

\* the keys as a set
KeySet(keys) == { keys[j] : j \in 1..Len(keys) }

\* C27: the constructor returns only after every submitted metadata job has
\* completed; the captions and lengths of every selected key are merged exactly
\* once and ann_list holds them in key-submission order, whatever the order in
\* which the workers finish; while the loop runs, exactly the jobs before its
\* position are merged, in that order.
C27_MergedOnceInSubmissionOrder ==
  /\ pool.pc = "returned" =>
       /\ \A j \in 1..Len(pool.jobs) : pool.jobs[j] = "done"
       /\ pool.ann_list = AnnListOf(pool.keys)
       /\ DOMAIN pool.annotations = KeySet(pool.keys)
       /\ DOMAIN pool.lengths = KeySet(pool.keys)
       /\ \A k \in KeySet(pool.keys) :
            /\ pool.annotations[k] = ArchiveCaptions(k)
            /\ pool.lengths[k] = ArchiveLengths(k)
       /\ pool.ids = SortedSeq(KeySet(pool.keys))
  /\ pool.pc = "loop" =>
       /\ \A j \in 1..(pool.pos - 1) : pool.jobs[j] = "done"
       /\ pool.ann_list = AnnListOf(SubSeq(pool.keys, 1, pool.pos - 1))

\* the constructor returned after two workers finished the jobs of at least
\* three keys, submitted out of key order, in another order than submitted
C27_Witness ==
  /\ pool.pc = "returned"
  /\ pool.num_processes > 1
  /\ Len(pool.keys) >= 3
  /\ pool.keys # SortedSeq(KeySet(pool.keys))
  /\ pool.finished # [j \in 1..Len(pool.keys) |-> j]
  /\ Len(pool.ann_list) = Len(pool.keys) * CapsPerImage

====
